---- MODULE Spec2Model ----
(***************************************************************************)
(* Model of DataFrame-postprocess/run_makedataframes.py:                   *)
(*   - the per-file ASCII table parser and the cross-file merge of         *)
(*     proc_gridstat (specifications Spec and SpecParse),                  *)
(*   - the configuration grid and the multiprocessing.Pool.map batch       *)
(*     driver at the bottom of the script (SpecBatch, FairBatch).          *)
(* Strings are TLA+ strings; Python's code-point comparison of strings is  *)
(* modelled by Ord and StrLess.                                            *)
(***************************************************************************)
EXTENDS Integers, Sequences, FiniteSets, TLC

\* ------------------------------------------------------------------ bounds
\* files one glob call may return
MaxFiles == 3
\* data lines of one input file
MaxLines == 2
\* columns of a header line
MaxCols == 2
\* cpu count of the host
MaxCpu == 3

\* ----------------------------------------------------------------- strings
\* code point of a one-character string (the characters the model uses)
Ord(c) ==
    CASE c = " " -> 32 [] c = "." -> 46 [] c = "/" -> 47
      [] c = "0" -> 48 [] c = "1" -> 49 [] c = "2" -> 50 [] c = "3" -> 51
      [] c = "4" -> 52 [] c = "5" -> 53 [] c = "6" -> 54 [] c = "7" -> 55
      [] c = "8" -> 56 [] c = "9" -> 57
      [] c = "A" -> 65 [] c = "B" -> 66 [] c = "C" -> 67 [] c = "D" -> 68
      [] c = "L" -> 76 [] c = "N" -> 78 [] c = "V" -> 86
      [] c = "_" -> 95
      [] c = "a" -> 97 [] c = "b" -> 98 [] c = "c" -> 99 [] c = "d" -> 100
      [] c = "e" -> 101 [] c = "f" -> 102 [] c = "g" -> 103 [] c = "i" -> 105
      [] c = "l" -> 108 [] c = "m" -> 109 [] c = "n" -> 110 [] c = "o" -> 111
      [] c = "r" -> 114 [] c = "s" -> 115 [] c = "t" -> 116 [] c = "u" -> 117
      [] c = "x" -> 120

\* Python's a < b on str: lexicographic by code point
RECURSIVE StrLess(_, _)
StrLess(a, b) ==
    IF Len(b) = 0 THEN FALSE
    ELSE IF Len(a) = 0 THEN TRUE
    ELSE IF Head(a) = Head(b) THEN StrLess(Tail(a), Tail(b))
    ELSE Ord(Head(a)) < Ord(Head(b))

\* the pieces of s from position i on, the current piece starting at start
RECURSIVE SplitFrom(_, _, _, _)
SplitFrom(s, sep, start, i) ==
    IF i > Len(s) THEN <<SubSeq(s, start, Len(s))>>
    ELSE IF SubSeq(s, i, i) = sep
    THEN <<SubSeq(s, start, i - 1)>> \o SplitFrom(s, sep, i + 1, i + 1)
    ELSE SplitFrom(s, sep, start, i + 1)

\* Python's s.split(sep) for a one-character separator
Split(s, sep) == SplitFrom(s, sep, 1, 1)

\* Python's s.split(): split on whitespace, empty pieces dropped
SplitWs(s) == SelectSeq(Split(s, " "), LAMBDA t : Len(t) > 0)

\* seq[-k] of Python ("" stands for the IndexError case, which the file
\* names of the model never reach)
FromEnd(seq, k) == IF Len(seq) >= k THEN seq[Len(seq) - k + 1] ELSE ""

\* ------------------------------------------------------------ TableParser
\* np.nan, the missing-value sentinel
NaN == "nan"

NoCols == [c \in {} |-> NaN]

\* one row of a DataFrame: the `line` value, the fields by column name, and
\* where the row comes from (input line number df_indx of file path)
Row(path, indx, cols, tmp) ==
    [line   |-> indx,
     fields |-> [c \in {cols[i] : i \in 1..Len(cols)} |->
                    IF c \in DOMAIN tmp THEN tmp[c] ELSE NaN],
     src    |-> <<path, indx>>]

\* the inner loop over the tokens of one line: tmp_dict[cols[i]] = val
RECURSIVE BindTokens(_, _, _, _)
BindTokens(cols, tmp, toks, i) ==
    IF i > Len(toks) THEN tmp
    ELSE LET val == IF toks[i] = "NA" THEN NaN ELSE toks[i]
             c   == cols[i]
         IN  BindTokens(cols,
                        [k \in DOMAIN tmp \cup {c} |-> IF k = c THEN val ELSE tmp[k]],
                        toks, i + 1)

\* the body of `for line in f` for one line; cols[i] raises IndexError when
\* the line has more tokens than the header
ParseLine(path, cols, tmp, df, indx, line) ==
    LET toks == SplitWs(line) IN
    IF Len(toks) > Len(cols)
    THEN [err |-> "IndexError", tmp |-> tmp, df |-> df, indx |-> indx]
    ELSE LET t2 == BindTokens(cols, tmp, toks, 1) IN
         [err  |-> "none",
          tmp  |-> t2,
          df   |-> Append(df, Row(path, indx, cols, t2)),
          indx |-> indx + 1]

\* fname_df['line'].astype(int): the column `line` exists only once a row
\* has been concatenated
AsTypeLine(df) == IF Len(df) = 0 THEN "KeyError" ELSE "none"

\* parse of the data lines of one file, from the state after the header
RECURSIVE ParseLines(_, _, _, _, _, _)
ParseLines(path, cols, tmp, df, indx, lines) ==
    IF Len(lines) = 0 THEN [err |-> "none", df |-> df]
    ELSE LET r == ParseLine(path, cols, tmp, df, indx, Head(lines)) IN
         IF r.err # "none" THEN [err |-> r.err, df |-> df]
         ELSE ParseLines(path, cols, r.tmp, r.df, r.indx, Tail(lines))

\* ------------------------------------------------------ configuration grid
\* settings of DataFrame_config (imported with *)
IN_ROOT == "/in"
OUT_ROOT == "/out"
pfx == "grid_stat"
CTR_FLWS == <<"flw">>
MEM_IDS == <<"m1", "m2">>
GRDS == <<"", "d1", "d2">>

\* pd.date_range(strt_dt, stop_dt, cyc_inc) as '%Y%m%d%H' strings
analyses == <<"2022122300">>

\* one CNFG list of the grid loop
CNFG(anl_strng, CTR_FLW, MEM_ID, GRD) ==
    LET mem_id == IF MEM_ID = "" THEN "" ELSE "/" \o MEM_ID
        grd    == IF GRD = "" THEN "" ELSE "/" \o GRD
    IN  [anl_strng    |-> anl_strng,
         ctr_flw      |-> CTR_FLW,
         grid         |-> GRD,
         in_cyc_dir   |-> "/" \o CTR_FLW,
         in_dt_subdir |-> mem_id \o grd,
         out_cyc_dir  |-> "/" \o CTR_FLW]

\* the grid points in loop order: analyses, CTR_FLWS, MEM_IDS, GRDS, the last
\* running fastest
GridSize == Len(analyses) * Len(CTR_FLWS) * Len(MEM_IDS) * Len(GRDS)

GridPoint(k) ==
    LET g == (k - 1) % Len(GRDS)
        m == ((k - 1) \div Len(GRDS)) % Len(MEM_IDS)
        c == ((k - 1) \div (Len(GRDS) * Len(MEM_IDS))) % Len(CTR_FLWS)
        a == (k - 1) \div (Len(GRDS) * Len(MEM_IDS) * Len(CTR_FLWS))
    IN  <<analyses[a + 1], CTR_FLWS[c + 1], MEM_IDS[m + 1], GRDS[g + 1]>>

CNFGS ==
    [k \in 1..GridSize |->
        CNFG(GridPoint(k)[1], GridPoint(k)[2], GridPoint(k)[3], GridPoint(k)[4])]

\* ------------------------------------------------- proc_gridstat: the paths
GrdSuffix(cnfg) == IF Len(cnfg.grid) > 0 THEN "_" \o cnfg.grid ELSE ""

LogPath(cnfg) ==
    OUT_ROOT \o "/batch_logs" \o "/proc_gridstat" \o pfx \o GrdSuffix(cnfg)
        \o "_" \o cnfg.ctr_flw \o "_" \o cnfg.anl_strng \o ".log"

InDataRoot(cnfg) == IN_ROOT \o cnfg.in_cyc_dir

OutDataRoot(cnfg) == OUT_ROOT \o cnfg.out_cyc_dir

\* the directory the glob pattern in_paths looks in
InDir(cnfg) == InDataRoot(cnfg) \o "/" \o cnfg.anl_strng \o cnfg.in_dt_subdir

OutPath(cnfg) ==
    OutDataRoot(cnfg) \o "/" \o cnfg.anl_strng \o "/grid_stats" \o pfx
        \o GrdSuffix(cnfg) \o "_" \o cnfg.anl_strng \o ".bin"

\* ------------------------------------------- proc_gridstat: the file order
\* the lead-time token of a path, x.split('_')[-4]
LeadToken(x) == FromEnd(Split(x, "_"), 4)

\* KeyLess without the length of the lead-time token: the plain string order
KeyLessPlain(a, b) == StrLess(a, b)

\* key=lambda x: (len(x.split('_')[-4]), x), compared as Python tuples
KeyLess(a, b) ==
    \/ Len(LeadToken(a)) < Len(LeadToken(b))
    \/ /\ Len(LeadToken(a)) = Len(LeadToken(b))
       /\ StrLess(a, b)

\* sorted(): a stable sort, modelled by insertion from the left
RECURSIVE InsertSorted(_, _)
InsertSorted(x, seq) ==
    IF Len(seq) = 0 THEN <<x>>
    ELSE IF KeyLess(x, Head(seq)) THEN <<x>> \o seq
    ELSE <<Head(seq)>> \o InsertSorted(x, Tail(seq))

RECURSIVE SortPaths(_)
SortPaths(seq) ==
    IF Len(seq) = 0 THEN <<>>
    ELSE InsertSorted(seq[Len(seq)], SortPaths(SubSeq(seq, 1, Len(seq) - 1)))

\* the diagnostic key of a path: fname.split('_')[-1].split('.')[0]
Postfix(in_path) ==
    LET fname      == FromEnd(Split(in_path, "/"), 1)
        split_name == Split(fname, "_")
    IN  Split(FromEnd(split_name, 1), ".")[1]

\* -------------------------------------------------------------- TypeMerger
\* AddLine without the offset: every file's rows keep their own numbering
AddLineNoOffset(df, last_indx) == df

\* fname_df['line'].add(last_indx)
AddLine(df, last_indx) ==
    [i \in 1..Len(df) |-> [df[i] EXCEPT !.line = df[i].line + last_indx]]

\* lines 231-240: data_dict[postfix] is created or extended
Merge(data_dict, postfix, fname_df) ==
    IF postfix \in DOMAIN data_dict
    THEN LET old       == data_dict[postfix]
             last_indx == old[Len(old)].line
         IN  [data_dict EXCEPT ![postfix] = old \o AddLine(fname_df, last_indx)]
    ELSE [k \in DOMAIN data_dict \cup {postfix} |->
            IF k = postfix THEN fname_df ELSE data_dict[k]]

\* the body of `for in_path in in_paths` (lines 185-246) for one file whose
\* text is content = [header, lines]
ProcFile(data_dict, in_path, content) ==
    LET cols == SplitWs(content.header) IN
    IF Len(cols) = 0
    THEN [err |-> "none", warn |-> TRUE, data_dict |-> data_dict]
    ELSE LET p == ParseLines(in_path, cols, NoCols, <<>>, 1, content.lines) IN
         IF p.err # "none"
         THEN [err |-> p.err, warn |-> FALSE, data_dict |-> data_dict]
         ELSE IF AsTypeLine(p.df) # "none"
         THEN [err |-> AsTypeLine(p.df), warn |-> FALSE, data_dict |-> data_dict]
         ELSE [err |-> "none", warn |-> FALSE,
               data_dict |-> Merge(data_dict, Postfix(in_path), p.df)]

\* ------------------------------------------------------------ input files
\* column names and tokens of the input files of the model
ColName(i) == SubSeq("ABCD", i, i)

Tokens == {"NA", "u"}

RECURSIVE JoinWs(_)
JoinWs(toks) ==
    IF Len(toks) = 0 THEN ""
    ELSE IF Len(toks) = 1 THEN toks[1]
    ELSE toks[1] \o " " \o JoinWs(Tail(toks))

\* a header line of n column names
Header(n) == JoinWs([i \in 1..n |-> ColName(i)])

\* every line of at most MaxCols + 1 tokens
AllLines == {JoinWs(t) : t \in UNION {[1..n -> Tokens] : n \in 0..(MaxCols + 1)}}

\* the lines of the files the cycle processor reads: a full line with a
\* missing value, a line longer than the header
CycleLines ==
    {JoinWs([i \in 1..MaxCols |-> IF i = 1 THEN "NA" ELSE "u"]),
     JoinWs([i \in 1..(MaxCols + 1) |-> "u"])}

SeqsUpTo(S, n) == UNION {[1..k -> S] : k \in 0..n}

\* an empty file, or a full header followed by at most MaxLines lines
CycleContents ==
    {[header |-> Header(0), lines |-> <<>>]}
        \cup [header : {Header(MaxCols)}, lines : SeqsUpTo(CycleLines, MaxLines)]

LeadTokens == {"3", "10", "21"}

DiagKeys == {"cnt", "cts"}

\* the grid_stat files a cycle directory may hold
FileNames(cnfg) ==
    {InDir(cnfg) \o "/" \o pfx \o "_" \o l \o "_20221224_000000V_" \o k \o ".txt" :
        l \in LeadTokens, k \in DiagKeys}

\* the orders in which glob.glob may return the files of a directory
Orders(files) ==
    {o \in [1..Cardinality(files) -> files] :
        \A i, j \in 1..Cardinality(files) : o[i] = o[j] => i = j}

\* ------------------------------------------------------------------- state
VARIABLES
    cnfg,        \* proc_gridstat: the argument
    fs,          \* the directories and files the task finds
    pc,          \* proc_gridstat: "start", "loop", "done", "exit", "raised"
    in_paths,    \* the sorted glob result
    idx,         \* position of the file loop in in_paths
    data_dict,   \* diagnostic key -> merged rows
    log_f,       \* the entries of the per-task log
    artifact,    \* what pickle.dump wrote to out_path
    reads,       \* history: the files opened so far and what became of them
    cols, tmp_dict, fname_df, df_indx,   \* TableParser: its locals
    ppc,         \* TableParser: "open", "lines", "parsed", "empty", or an error
    lines_in,    \* history: the data lines read so far
    cpu,         \* multiprocessing.cpu_count()
    n_workers,   \* the argument of Pool()
    chunks,      \* pool.map: the task batches, each a list of indices of CNFGS
    taskq,       \* pool.map: the batches no worker has taken yet
    worker,      \* the pool's worker processes
    task,        \* per configuration: "pending", "done", "raised", "exit"
    left,        \* MapResult._number_left
    success,     \* MapResult._success
    driver,      \* the script: "init", "pool", "waiting", "returned", "raised", "ValueError"
    disk         \* out_path -> the tasks that wrote it and the data last written

cycleVars == <<cnfg, fs, pc, in_paths, idx, data_dict, log_f, artifact, reads>>
parseVars == <<cols, tmp_dict, fname_df, df_indx, ppc, lines_in>>
batchVars == <<cpu, n_workers, chunks, taskq, worker, task, left, success, driver, disk>>
vars == <<cycleVars, parseVars, batchVars>>

CycleIdle ==
    /\ cnfg = CNFGS[1] /\ fs = <<>> /\ pc = "idle" /\ in_paths = <<>> /\ idx = 0
    /\ data_dict = <<>> /\ log_f = <<>> /\ reads = <<>>
    /\ artifact = [written |-> FALSE, data |-> <<>>]

ParseIdle ==
    /\ cols = <<>> /\ tmp_dict = NoCols /\ fname_df = <<>> /\ df_indx = 0
    /\ ppc = "idle" /\ lines_in = <<>>

BatchIdle ==
    /\ cpu = 0 /\ n_workers = 0 /\ chunks = <<>> /\ taskq = <<>> /\ worker = <<>>
    /\ task = <<>> /\ left = 0 /\ success = TRUE /\ driver = "idle" /\ disk = <<>>

\* ---------------------------------------------------------- CycleProcessor
\* MkdirP that creates nothing
MkdirPNothing(exists, creatable) == exists

\* os.system('mkdir -p ' + d): d exists afterwards if it did, or if it could
\* be created
MkdirP(exists, creatable) == exists \/ creatable

\* CheckDirs without the check of the input data root
CheckDirsOutputOnly(f) ==
    IF ~(f.outRoot \/ f.mkdirOk) THEN "output" ELSE "ok"

\* the two checks of lines 150-159, after the mkdir -p of line 147
CheckDirs(f) ==
    IF ~f.inRoot THEN "input"
    ELSE IF ~MkdirP(f.outRoot, f.mkdirOk) THEN "output"
    ELSE "ok"

\* fs is what the task finds when it starts: inRoot and outRoot say whether
\* in_data_root and out_data_root are directories, mkdirOk whether mkdir -p can
\* make out_data_root, cycDir whether the cycle directory of the glob pattern
\* exists, files what it holds. The log directory and out_dir can be made and
\* the files can be read.
InitCycle ==
    /\ cnfg = CNFGS[GridSize]
    /\ \E inRoot, cycDir, outRoot, mkdirOk \in BOOLEAN :
       \E files \in {F \in SUBSET FileNames(cnfg) : Cardinality(F) <= MaxFiles} :
          /\ cycDir => inRoot
          /\ files # {} => cycDir
          /\ outRoot => mkdirOk
          /\ fs = [inRoot |-> inRoot, cycDir |-> cycDir, outRoot |-> outRoot,
                   mkdirOk |-> mkdirOk, files |-> files]
    /\ pc = "start" /\ in_paths = <<>> /\ idx = 0
    /\ data_dict = <<>> /\ log_f = <<>> /\ reads = <<>>
    /\ artifact = [written |-> FALSE, data |-> <<>>]

\* lines 128-183: the log is opened, the directories are made and checked,
\* the input files are listed and sorted; sys.exit(1) closes the log
Start ==
    /\ pc = "start"
    /\ IF CheckDirs(fs) # "ok"
       THEN /\ log_f' = <<[level |-> "ERROR", what |-> CheckDirs(fs)]>>
            /\ pc' = "exit"
            /\ UNCHANGED <<in_paths, idx>>
       ELSE /\ \E o \in Orders(fs.files) : in_paths' = SortPaths(o)
            /\ log_f' = <<>>
            /\ idx' = 1
            /\ pc' = "loop"
    /\ UNCHANGED <<cnfg, fs, data_dict, artifact, reads, parseVars, batchVars>>

\* lines 184-246: one pass of the file loop
LoopFile ==
    /\ pc = "loop" /\ idx <= Len(in_paths)
    /\ \E content \in CycleContents :
         LET r == ProcFile(data_dict, in_paths[idx], content)
             outcome == IF r.err # "none" THEN r.err
                        ELSE IF r.warn THEN "skipped" ELSE "merged"
             kind == IF Len(SplitWs(content.header)) = 0 THEN "no columns"
                     ELSE IF Len(content.lines) = 0 THEN "header only"
                     ELSE "rows"
         IN  /\ reads' = Append(reads, [path |-> in_paths[idx],
                                        key  |-> Postfix(in_paths[idx]),
                                        kind |-> kind,
                                        nlines |-> IF outcome = "merged"
                                                   THEN Len(content.lines) ELSE 0,
                                        outcome |-> outcome])
             /\ IF r.err # "none"
                THEN /\ pc' = "raised"
                     /\ UNCHANGED <<data_dict, log_f, idx>>
                ELSE /\ data_dict' = r.data_dict
                     /\ log_f' = IF r.warn
                                 THEN Append(log_f, [level |-> "WARNING",
                                                     what |-> in_paths[idx]])
                                 ELSE log_f
                     /\ idx' = idx + 1
                     /\ pc' = pc
    /\ UNCHANGED <<cnfg, fs, in_paths, artifact, parseVars, batchVars>>

\* lines 248-252: the dictionary is pickled to out_path
WriteOut ==
    /\ pc = "loop" /\ idx > Len(in_paths)
    /\ artifact' = [written |-> TRUE, data |-> data_dict]
    /\ pc' = "done"
    /\ UNCHANGED <<cnfg, fs, in_paths, idx, data_dict, log_f, reads, parseVars, batchVars>>

Init == InitCycle /\ ParseIdle /\ BatchIdle

Next ==
    \/ Start
    \/ LoopFile
    \/ WriteOut

Spec == Init /\ [][Next]_vars

\* ------------------------------------------------- TableParser, by the line
\* the file the parser reads in SpecParse
ParsePath ==
    InDir(CNFGS[1]) \o "/" \o pfx \o "_3_20221224_000000V_cnt.txt"

InitParse ==
    /\ ppc = "open"
    /\ cols = <<>> /\ tmp_dict = NoCols /\ fname_df = <<>> /\ df_indx = 0
    /\ lines_in = <<>>

\* lines 194-209: the header line is read and split
OpenFile ==
    /\ ppc = "open"
    /\ \E n \in 0..MaxCols :
         /\ cols' = SplitWs(Header(n))
         /\ ppc' = IF Len(cols') > 0 THEN "lines" ELSE "empty"
    /\ tmp_dict' = NoCols
    /\ fname_df' = <<>>
    /\ df_indx' = 1
    /\ UNCHANGED <<lines_in, cycleVars, batchVars>>

\* lines 212-227: one data line is read
ReadLine ==
    /\ ppc = "lines" /\ Len(lines_in) < MaxLines
    /\ \E line \in AllLines :
         LET r == ParseLine(ParsePath, cols, tmp_dict, fname_df, df_indx, line) IN
         /\ lines_in' = Append(lines_in, line)
         /\ tmp_dict' = r.tmp
         /\ fname_df' = r.df
         /\ df_indx' = r.indx
         /\ ppc' = IF r.err # "none" THEN r.err ELSE ppc
    /\ UNCHANGED <<cols, cycleVars, batchVars>>

\* line 229, at the end of the file
EndOfFile ==
    /\ ppc = "lines"
    /\ ppc' = IF AsTypeLine(fname_df) # "none" THEN AsTypeLine(fname_df) ELSE "parsed"
    /\ UNCHANGED <<cols, tmp_dict, fname_df, df_indx, lines_in, cycleVars, batchVars>>

NextParse ==
    \/ OpenFile
    \/ ReadLine
    \/ EndOfFile

InitP == InitParse /\ CycleIdle /\ BatchIdle

SpecParse == InitP /\ [][NextParse]_vars

\* ------------------------------------------- proc_gridstat as one operation
\* the file loop of lines 184-246 from in_paths[i] on; contents gives the text
\* of each file
RECURSIVE FileLoop(_, _, _, _, _)
FileLoop(dd, lg, paths, i, contents) ==
    IF i > Len(paths) THEN [status |-> "done", log |-> lg, data |-> dd]
    ELSE LET r == ProcFile(dd, paths[i], contents[paths[i]]) IN
         IF r.err # "none" THEN [status |-> "raised", log |-> lg, data |-> dd]
         ELSE FileLoop(r.data_dict,
                       IF r.warn
                       THEN Append(lg, [level |-> "WARNING", what |-> paths[i]])
                       ELSE lg,
                       paths, i + 1, contents)

\* proc_gridstat(cnfg) in the environment f (directories and files) with
\* the file texts contents: how the call ends, its log, the data it pickles.
\* The glob order is one of Orders(f.files).
ProcGridstat(f, contents) ==
    IF CheckDirs(f) # "ok"
    THEN [status |-> "exit",
          log    |-> <<[level |-> "ERROR", what |-> CheckDirs(f)]>>,
          data   |-> <<>>]
    ELSE FileLoop(<<>>, <<>>, SortPaths(CHOOSE o \in Orders(f.files) : TRUE),
                  1, contents)

\* the environments a task of the batch may find
EnvKinds == {"ok", "no input root", "header only"}

GoodText == [header |-> Header(MaxCols), lines |-> <<JoinWs([i \in 1..MaxCols |-> "u"])>>]

HeaderOnlyText == [header |-> Header(MaxCols), lines |-> <<>>]

BatchFile(cf) ==
    InDir(cf) \o "/" \o pfx \o "_3_20221224_000000V_cnt.txt"

BatchEnv(cf, kind) ==
    [inRoot  |-> kind # "no input root",
     cycDir  |-> kind # "no input root",
     outRoot |-> FALSE,
     mkdirOk |-> TRUE,
     files   |-> IF kind = "no input root" THEN {} ELSE {BatchFile(cf)}]

BatchText(cf, kind) ==
    [p \in {BatchFile(cf)} |-> IF kind = "header only" THEN HeaderOnlyText ELSE GoodText]

\* what proc_gridstat(CNFGS[k]) does in each environment
TaskResult ==
    [k \in 1..GridSize |->
        [e \in EnvKinds |->
            ProcGridstat(BatchEnv(CNFGS[k], e), BatchText(CNFGS[k], e))]]

\* ------------------------------------------------------------- BatchDriver
\* Pool._map_async: chunksize, extra = divmod(len(iterable), len(pool) * 4)
ChunkSize(len, n) ==
    (len \div (n * 4)) + (IF len % (n * 4) # 0 THEN 1 ELSE 0)

NumChunks(len, size) ==
    IF size = 0 THEN 0 ELSE (len \div size) + (IF len % size # 0 THEN 1 ELSE 0)

\* Pool._get_tasks: consecutive slices of the iterable
Batches(len, size) ==
    [c \in 1..NumChunks(len, size) |->
        [i \in 1..(IF c * size <= len THEN size ELSE len - (c - 1) * size) |->
            (c - 1) * size + i]]

\* line 258
NWorkers(p) == p - 1

IdleWorker == [st |-> "idle", chunk |-> 0, pos |-> 0]

InitBatch ==
    /\ cpu \in 1..MaxCpu
    /\ n_workers = 0 /\ chunks = <<>> /\ taskq = <<>> /\ worker = <<>>
    /\ task = [k \in 1..GridSize |-> "pending"]
    /\ left = 0 /\ success = TRUE /\ driver = "init"
    /\ disk = <<>>

\* lines 258-261: Pool(n_workers) raises ValueError for fewer than 1 process
CreatePool ==
    /\ driver = "init"
    /\ n_workers' = NWorkers(cpu)
    /\ IF n_workers' < 1
       THEN driver' = "ValueError" /\ UNCHANGED worker
       ELSE driver' = "pool" /\ worker' = [w \in 1..n_workers' |-> IdleWorker]
    /\ UNCHANGED <<cpu, chunks, taskq, task, left, success, disk, cycleVars, parseVars>>

\* line 262: pool.map queues the batches and waits
MapDispatch ==
    /\ driver = "pool"
    /\ chunks' = Batches(GridSize, ChunkSize(GridSize, n_workers))
    /\ taskq' = [c \in 1..Len(chunks') |-> c]
    /\ left' = Len(chunks')
    /\ success' = TRUE
    /\ driver' = "waiting"
    /\ UNCHANGED <<cpu, n_workers, worker, task, disk, cycleVars, parseVars>>

\* when a step of the pool is possible: an idle worker and a queued batch, a
\* worker inside a batch, a worker process that exited, every batch reported
CanTake(w) == driver = "waiting" /\ worker[w].st = "idle" /\ taskq # <<>>

CanRun(w) == driver = "waiting" /\ worker[w].st = "busy"

CanRepopulate(w) == driver = "waiting" /\ worker[w].st = "dead"

CanReturn == driver = "waiting" /\ left = 0

\* pool.worker: task = get()
WorkerTake(w) ==
    /\ CanTake(w)
    /\ worker' = [worker EXCEPT ![w] = [st |-> "busy", chunk |-> Head(taskq), pos |-> 1]]
    /\ taskq' = Tail(taskq)
    /\ UNCHANGED <<cpu, n_workers, chunks, task, left, success, driver, disk, cycleVars, parseVars>>

\* the file out_path after task k pickled data to it
WriteDisk(d, out_path, k, data) ==
    [q \in DOMAIN d \cup {out_path} |->
        IF q = out_path
        THEN [writers |-> (IF q \in DOMAIN d THEN d[q].writers ELSE {}) \cup {k},
              data    |-> data]
        ELSE d[q]]

\* pool.worker running mapstar over its batch: one call of proc_gridstat.
\* An exception ends the batch and is reported; SystemExit is no Exception,
\* so it ends the worker process and nothing is reported.
RunTask(w) ==
    /\ CanRun(w)
    /\ LET c == worker[w].chunk
           k == chunks[c][worker[w].pos]
       IN \E e \in EnvKinds :
            LET r == TaskResult[k][e] IN
            /\ task' = [task EXCEPT ![k] = r.status]
            /\ disk' = IF r.status = "done"
                       THEN WriteDisk(disk, OutPath(CNFGS[k]), k, r.data)
                       ELSE disk
            /\ CASE r.status = "done" ->
                      IF worker[w].pos < Len(chunks[c])
                      THEN /\ worker' = [worker EXCEPT ![w].pos = @ + 1]
                           /\ UNCHANGED <<left, success>>
                      ELSE /\ worker' = [worker EXCEPT ![w] = IdleWorker]
                           /\ left' = left - 1
                           /\ UNCHANGED success
                 [] r.status = "raised" ->
                      /\ worker' = [worker EXCEPT ![w] = IdleWorker]
                      /\ left' = left - 1
                      /\ success' = FALSE
                 [] r.status = "exit" ->
                      /\ worker' = [worker EXCEPT ![w] = [st |-> "dead", chunk |-> c, pos |-> 0]]
                      /\ UNCHANGED <<left, success>>
    /\ UNCHANGED <<cpu, n_workers, chunks, taskq, driver, cycleVars, parseVars>>

\* Pool._handle_workers: a worker process that exited is replaced
Repopulate(w) ==
    /\ CanRepopulate(w)
    /\ worker' = [worker EXCEPT ![w] = IdleWorker]
    /\ UNCHANGED <<cpu, n_workers, chunks, taskq, task, left, success, driver, disk, cycleVars, parseVars>>

\* MapResult: the result is ready once every batch has reported; map returns
\* or raises the first exception, and the with block terminates the pool
MapReturn ==
    /\ CanReturn
    /\ driver' = IF success THEN "returned" ELSE "raised"
    /\ worker' = [w \in DOMAIN worker |-> [st |-> "terminated", chunk |-> 0, pos |-> 0]]
    /\ UNCHANGED <<cpu, n_workers, chunks, taskq, task, left, success, disk, cycleVars, parseVars>>

NextBatch ==
    \/ CreatePool
    \/ MapDispatch
    \/ \E w \in DOMAIN worker : WorkerTake(w)
    \/ \E w \in DOMAIN worker : RunTask(w)
    \/ \E w \in DOMAIN worker : Repopulate(w)
    \/ MapReturn

InitB == InitBatch /\ CycleIdle /\ ParseIdle

SpecBatch == InitB /\ [][NextBatch]_vars

\* ================================================================== claims
Ended == pc \in {"done", "exit", "raised"}

HasFatal(lg) == \E i \in 1..Len(lg) : lg[i].level = "ERROR"

HasFatalAbout(lg, what) ==
    \E i \in 1..Len(lg) : lg[i].level = "ERROR" /\ lg[i].what = what

\* the rows the merged files of key k hold, file by file in merge order, each
\* file's rows in their original order
RECURSIVE SrcOfReads(_, _)
SrcOfReads(rs, k) ==
    IF Len(rs) = 0 THEN <<>>
    ELSE (IF Head(rs).outcome = "merged" /\ Head(rs).key = k
          THEN [j \in 1..Head(rs).nlines |-> <<Head(rs).path, j>>]
          ELSE <<>>) \o SrcOfReads(Tail(rs), k)

\* C1: for every diagnostic key, after any sequence of merged files, the
\* `line` values of the merged table are exactly 1..N, N the number of rows
\* merged so far, and the rows are those of the merged files in merge order,
\* each file's rows in their original order.
C1_LineContinuity ==
    /\ \A k \in DOMAIN data_dict :
         /\ \A i \in 1..Len(data_dict[k]) : data_dict[k][i].line = i
         /\ [i \in 1..Len(data_dict[k]) |-> data_dict[k][i].src] = SrcOfReads(reads, k)
    /\ \A i \in 1..Len(reads) :
         reads[i].outcome = "merged" => reads[i].key \in DOMAIN data_dict

\* two files were merged into one key, the first with more than one row
C1_Witness ==
    \E k \in DOMAIN data_dict :
        /\ Len(data_dict[k]) >= 3
        /\ data_dict[k][1].src[1] = data_dict[k][2].src[1]
        /\ data_dict[k][2].src[1] # data_dict[k][3].src[1]
        /\ data_dict[k][3].line = 3

Digit(c) == Ord(c) - 48

RECURSIVE StrToNat(_)
StrToNat(s) ==
    IF Len(s) = 0 THEN 0
    ELSE 10 * StrToNat(SubSeq(s, 1, Len(s) - 1)) + Digit(SubSeq(s, Len(s), Len(s)))

LeadTime(x) == StrToNat(LeadToken(x))

\* C2: the files of a cycle are merged in ascending numeric lead-time order,
\* files of equal lead time in the order of their names, whatever order the
\* directory listing had: in_paths holds exactly the files of the directory in
\* that order.
C2_LeadTimeOrder ==
    pc \in {"loop", "done", "raised"} =>
        /\ Len(in_paths) = Cardinality(fs.files)
        /\ {in_paths[i] : i \in 1..Len(in_paths)} = fs.files
        /\ \A i, j \in 1..Len(in_paths) :
             i < j =>
                \/ LeadTime(in_paths[i]) < LeadTime(in_paths[j])
                \/ /\ LeadTime(in_paths[i]) = LeadTime(in_paths[j])
                   /\ StrLess(in_paths[i], in_paths[j])

\* the lead times 3, 10, 21 were listed and are in this order
C2_Witness ==
    /\ pc = "loop" /\ Len(in_paths) = 3
    /\ LeadToken(in_paths[1]) = "3"
    /\ LeadToken(in_paths[2]) = "10"
    /\ LeadToken(in_paths[3]) = "21"

\* C3: a header-only file (column names, no data line) is skipped with a
\* warning: it contributes no row and the task does not fail on it.
C3_HeaderOnlySkipped ==
    \A i \in 1..Len(reads) :
        reads[i].kind = "header only" =>
            /\ reads[i].outcome = "skipped"
            /\ pc # "raised"

\* C4 as stated: a task whose derived input directory (input root, control
\* flow, analysis time, date subpath) does not exist writes no artifact and
\* logs a fatal error.
C4_MissingInputDir ==
    (Ended /\ ~fs.cycDir) => (~artifact.written /\ HasFatal(log_f))

\* C4 amended: a task whose input data root (input root and control-flow
\* subpath) does not exist exits, writes no artifact and logs a fatal error.
C4_MissingInputRoot ==
    (pc # "start" /\ ~fs.inRoot) =>
        (pc = "exit" /\ ~artifact.written /\ HasFatalAbout(log_f, "input"))

\* the task has ended on a missing input data root
C4_Witness == pc = "exit" /\ ~fs.inRoot /\ HasFatalAbout(log_f, "input")

\* C8 as stated: a task whose input exists and whose output root does not
\* exist when it starts writes no artifact and logs a fatal error.
C8_MissingOutputRootFatal ==
    (Ended /\ fs.inRoot /\ ~fs.outRoot) => (~artifact.written /\ HasFatal(log_f))

\* C8 amended: a task whose input data root exists and whose output root does
\* not exist when it starts first makes the output root; when that succeeds
\* the task goes on without a fatal error and writes its artifact at the end
\* of the file loop, and only when the output root is still missing does the
\* task exit, write no artifact and log a fatal error.
C8_OutputRootMade ==
    (pc # "start" /\ fs.inRoot /\ ~fs.outRoot) =>
        /\ fs.mkdirOk =>
              /\ pc # "exit"
              /\ ~HasFatal(log_f)
              /\ pc = "done" => artifact.written
        /\ ~fs.mkdirOk =>
              /\ pc = "exit"
              /\ ~artifact.written
              /\ HasFatalAbout(log_f, "output")

\* the output root was missing, was made, and the artifact is written
C8_Witness ==
    /\ pc = "done" /\ fs.inRoot /\ ~fs.outRoot /\ fs.mkdirOk
    /\ artifact.written /\ ~HasFatal(log_f)

\* what line k alone says about column i: its token, NaN for NA, NaN when the
\* line has no token for the column
FieldOfLine(line, i) ==
    LET toks == SplitWs(line) IN
    IF i > Len(toks) THEN NaN
    ELSE IF toks[i] = "NA" THEN NaN
    ELSE toks[i]

\* C10: every record is built from its own line alone: field i is token i,
\* NaN for NA, and NaN for a column the line has no token for, never a value
\* of an earlier line.
C10_RecordFromOwnLine ==
    \A k \in 1..Len(fname_df) :
        \A i \in 1..Len(cols) :
            fname_df[k].fields[cols[i]] = FieldOfLine(lines_in[k], i)

\* task k is still going to be run: its batch is queued, or a worker is
\* inside the batch and has not passed k
WillRun(k) ==
    \E c \in 1..Len(chunks) :
        \E i \in 1..Len(chunks[c]) :
            /\ chunks[c][i] = k
            /\ \/ \E q \in 1..Len(taskq) : taskq[q] = c
               \/ \E w \in DOMAIN worker :
                     /\ worker[w].st = "busy"
                     /\ worker[w].chunk = c
                     /\ worker[w].pos <= i

\* C5: the failure of one task does not keep a sibling from being run: while
\* the driver waits every task not yet run is still going to be run, and when
\* the batch is over every task was run.
C5_SiblingsStillRun ==
    /\ driver = "waiting" => \A k \in 1..GridSize : task[k] = "pending" => WillRun(k)
    /\ driver \in {"returned", "raised"} => \A k \in 1..GridSize : task[k] # "pending"

\* C6: the driver's wait on the pool ends: while the driver waits in
\* pool.map, a step is still possible (a worker can take or run a task, an
\* exited worker can be replaced, or map can return).
C6_WaitEnds ==
    driver = "waiting" =>
        \/ CanReturn
        \/ \E w \in DOMAIN worker : CanTake(w) \/ CanRun(w) \/ CanRepopulate(w)

\* C7: no two tasks of one batch write the same artifact file.
C7_NoSharedArtifact ==
    \A q \in DOMAIN disk : Cardinality(disk[q].writers) <= 1

\* C9: the pool is made with max(1, p - 1) workers for a host of p cpus, so
\* there is always a worker and the batch is dispatched.
C9_AtLeastOneWorker ==
    driver # "init" =>
        /\ n_workers = (IF cpu - 1 > 1 THEN cpu - 1 ELSE 1)
        /\ driver # "ValueError"

====
